---- MODULE Spec2Model ----
(***************************************************************************)
(* LinkedIn post generator: the LangGraph workflow built by                *)
(* create_workflow (src/main.py) over GraphState (src/state.py).           *)
(*                                                                         *)
(* Texts are sequences of tokens (the empty sequence is the empty string), *)
(* an Optional[str] is a record [some, val].  A dict is a function whose   *)
(* DOMAIN is the set of keys present.                                      *)
(***************************************************************************)
EXTENDS Integers, Sequences, FiniteSets, TLC

VARIABLES
    pc,             \* position of the graph run
    state,          \* the graph state: channel name -> value, set channels only
    i,              \* loop variable of generate_content_insights (0-based)
    insights,       \* local list `insights` of generate_content_insights
    insight_calls,  \* outcome of each insight model call issued so far
    insight_out,    \* what the model returned for each insight call (or NoOutput)
    branches,       \* the Send tasks of the fan-out, in Send order
    sel_call,       \* the selection model call: "none", "ok", "fail"
    sel_in,         \* the state select_best_post was entered with
    ret,            \* return value of the last node that returned a dict
    outcome,        \* of run_workflow: "running", "returned", "raised"
    error,          \* the exception run_workflow re-raises
    entered,        \* the nodes entered so far, in order
    fetched,        \* the calls of fetch_website_content so far, with their results
    session_state,  \* st.session_state of one browser session: a dict
    ui              \* the page of that session: where its script run stands,
                    \* what the last run rendered, what the user did last

vars == <<pc, state, i, insights, insight_calls, insight_out, branches,
          sel_call, sel_in, ret, outcome, error, entered, fetched,
          session_state, ui>>

----------------------------------------------------------------------------
(* Bounds *)

MaxInsights == 3    \* longest content_insights list handed to the fan-out alone
MaxPosts == 3       \* longest linkedin_posts list handed to select_best_post alone
MaxModelId == 4     \* the selection model answers an id in 0..MaxModelId
MaxUrlLen == 3      \* longest url, scheme aside, handed to get_website_content alone

----------------------------------------------------------------------------
(* Python values *)

EmptyStr == <<>>
None == [some |-> FALSE, val |-> <<>>]
Some(s) == [some |-> TRUE, val |-> s]
EmptyDict == [k \in {} |-> 0]
NoOutput == [title |-> "", description |-> "", audience_relevance |-> "", value_alignment |-> ""]

\* truth value of a str or a list
Truthy(s) == Len(s) > 0

\* truth value of an Optional[str]
TruthyOpt(o) == o.some /\ Len(o.val) > 0

\* dict.get(key, default)
Get(d, key, default) == IF key \in DOMAIN d THEN d[key] ELSE default

\* d[key] = value
SetItem(d, key, value) ==
    [k \in DOMAIN d \cup {key} |-> IF k = key THEN value ELSE d[k]]

RECURSIVE StrJoin(_, _)
\* sep.join(parts)
StrJoin(sep, parts) ==
    IF Len(parts) = 0 THEN EmptyStr
    ELSE IF Len(parts) = 1 THEN parts[1]
    ELSE parts[1] \o sep \o StrJoin(sep, Tail(parts))

----------------------------------------------------------------------------
(* state.py *)

\* the keys of GraphState; the graph has one channel per key
GraphStateKeys ==
    {"messages", "website_url", "given_content", "tone", "target_audience",
     "value_proposition", "brand_persona", "website_content",
     "content_insights", "linkedin_posts"}

\* SelectedBestPost(id=..., reason=...): main.py:11 imports the class from
\* state.py, which does not define it; its fields are those main.py:203-207
\* and streamlit_app.py:198-199 use.  Keyword arguments that are not fields
\* (Title) are dropped.
SelectedBestPost(id, reason) == [id |-> id, reason |-> reason]

\* ContentInsight(title=..., description=..., audience_relevance=..., value_alignment=...)
ContentInsight(title, description, audience_relevance, value_alignment) ==
    [title |-> title, description |-> description,
     audience_relevance |-> audience_relevance, value_alignment |-> value_alignment]

----------------------------------------------------------------------------
(* What the collaborators can answer *)

\* Characters are one-character strings, a url is a sequence of them.
LowerLetters ==
    {"a", "b", "c", "d", "e", "f", "g", "h", "i", "j", "k", "l", "m",
     "n", "o", "p", "q", "r", "s", "t", "u", "v", "w", "x", "y", "z"}
UpperLetters == {"H", "T", "P", "S", "W"}
Digits == {"0", "1", "2", "3", "4", "5", "6", "7", "8", "9"}
Whitespace == {" ", "\n", "\t"}

HttpPrefix == <<"h", "t", "t", "p", ":", "/", "/">>
HttpsPrefix == <<"h", "t", "t", "p", "s", ":", "/", "/">>
WwwDot == <<"w", "w", "w", ".">>
ExampleCom == <<"e", "x", "a", "m", "p", "l", "e", ".", "c", "o", "m">>
NotAUrl == <<"n", "o", "t", " ", "a", " ", "u", "r", "l", "?", "?">>

\* texts the caller passes
Urls == {EmptyStr, ExampleCom, NotAUrl}
GivenContents == {EmptyStr, <<"given">>}

\* what WebBaseLoader.load() does: raises (network or parse error), returns
\* no document, or returns one document with its page_content
Pages == {<<" ">>, <<" ", "web", "\n">>}
LoadOutcomes ==
    {[kind |-> "raise", docs |-> <<>>], [kind |-> "ok", docs |-> <<>>]}
    \cup {[kind |-> "ok", docs |-> <<page>>] : page \in Pages}

\* structured outputs of the insight model
ModelInsights ==
    {ContentInsight(t, "model description", "model relevance", "model alignment") :
        t \in {"Angle A", "Angle B"}}

\* structured outputs of the drafting model
ModelPostTexts == {"draft"}

\* the integer ids the selection model can answer (nothing constrains them)
ModelIds == 0..MaxModelId

----------------------------------------------------------------------------
(* utils.py: ensure_url, fetch_website_content *)

Min(a, b) == IF a <= b THEN a ELSE b

\* str.lower() of one character
Lower(c) ==
    CASE c = "H" -> "h"
      [] c = "T" -> "t"
      [] c = "P" -> "p"
      [] c = "S" -> "s"
      [] c = "W" -> "w"
      [] OTHER -> c

\* string.startswith(prefix)
StartsWith(string, prefix) ==
    /\ Len(string) >= Len(prefix)
    /\ \A n \in 1..Len(prefix) : string[n] = prefix[n]

\* the literal lit matches string at offset p, ignoring case
LitAt(string, p, lit) ==
    /\ p + Len(lit) <= Len(string)
    /\ \A n \in 1..Len(lit) : Lower(string[p + n]) = lit[n]

\* every character of string[p+1..q] is in class
AllIn(string, p, q, class) == \A n \in (p + 1)..q : string[n] \in class

HostChars == LowerLetters \cup UpperLetters \cup Digits \cup {".", "-"}

\* The pattern of url_regex, group by group: from the set P of offsets where
\* the groups before can end, the set of offsets where this group can end.

\* ^(https?:\/\/)?
GroupScheme(string) ==
    {0} \cup {Len(lit) : lit \in {l \in {HttpPrefix, HttpsPrefix} : LitAt(string, 0, l)}}

\* (www\.)?
GroupWww(string, P) ==
    P \cup {p + Len(WwwDot) : p \in {q \in P : LitAt(string, q, WwwDot)}}

\* ([a-zA-Z0-9.-]+)
GroupHost(string, P) ==
    {q \in 1..Len(string) : \E p \in P : p < q /\ AllIn(string, p, q, HostChars)}

\* (\.[a-zA-Z]{2,})?
GroupTld(string, P) ==
    P \cup {q \in 1..Len(string) : \E p \in P :
               /\ p + 3 <= q
               /\ string[p + 1] = "."
               /\ AllIn(string, p + 1, q, LowerLetters \cup UpperLetters)}

\* (:\d+)?
GroupPort(string, P) ==
    P \cup {q \in 1..Len(string) : \E p \in P :
               /\ p + 2 <= q
               /\ string[p + 1] = ":"
               /\ AllIn(string, p + 1, q, Digits)}

\* (\/[^\s]*)?
GroupPath(string, P) ==
    P \cup {q \in 1..Len(string) : \E p \in P :
               /\ p + 1 <= q
               /\ string[p + 1] = "/"
               /\ \A n \in (p + 2)..q : string[n] \notin Whitespace}

\* $ matches at the end and before a final newline
AtEnd(string, P) ==
    \/ Len(string) \in P
    \/ Len(string) >= 1 /\ string[Len(string)] = "\n" /\ (Len(string) - 1) \in P

\* url_regex.match(string)
UrlRegexMatch(string) ==
    \E P1 \in {GroupScheme(string)} :
    \E P2 \in {GroupWww(string, P1)} :
    \E P3 \in {GroupHost(string, P2)} :
    \E P4 \in {GroupTld(string, P3)} :
    \E P5 \in {GroupPort(string, P4)} :
    \E P6 \in {GroupPath(string, P5)} :
        AtEnd(string, P6)

\* a normalisation that leaves the scheme out
ensure_url_NoPrefix(string) ==
    IF UrlRegexMatch(string)
    THEN [exc |-> "none", val |-> string]
    ELSE [exc |-> "ValueError", val |-> string]

\* ensure_url(string): the url, or a ValueError
ensure_url(string) ==
    LET prefixed == IF StartsWith(string, HttpPrefix) \/ StartsWith(string, HttpsPrefix)
                    THEN string
                    ELSE HttpPrefix \o string
    IN IF UrlRegexMatch(prefixed)
       THEN [exc |-> "none", val |-> prefixed]
       ELSE [exc |-> "ValueError", val |-> prefixed]

max_length == 10000

RECURSIVE LStrip(_)
LStrip(t) == IF Len(t) > 0 /\ t[1] \in Whitespace THEN LStrip(Tail(t)) ELSE t

RECURSIVE RStrip(_)
RStrip(t) ==
    IF Len(t) > 0 /\ t[Len(t)] \in Whitespace THEN RStrip(SubSeq(t, 1, Len(t) - 1)) ELSE t

\* str.strip()
Strip(t) == RStrip(LStrip(t))

\* t[:n]
Take(t, n) == SubSeq(t, 1, Min(Len(t), n))

\* no except clause: the exception leaves fetch_website_content
FetchOnError_Propagate(exc) == [kind |-> "raise", exc |-> exc, val |-> None]

\* what the except clause of fetch_website_content does with an exception
FetchOnError(exc) == [kind |-> "return", exc |-> "none", val |-> None]

\* fetch_website_content(url) when the loader behaves as load
fetch_website_content(url, load) ==
    LET validated_url == ensure_url(url)
    IN IF validated_url.exc # "none" THEN FetchOnError(validated_url.exc)
       ELSE IF load.kind = "raise" THEN FetchOnError("LoaderError")
       ELSE IF Truthy(load.docs)
       THEN [kind |-> "return", exc |-> "none",
             val |-> Some(Take(Strip(load.docs[1]), max_length))]
       ELSE [kind |-> "return", exc |-> "none", val |-> None]

----------------------------------------------------------------------------
(* main.py: get_website_content *)

\* the literal text appended before the web text
get_website_content_GivenFirst(st, web_content) ==
    LET website_url == Get(st, "website_url", EmptyStr)
        given_content == Get(st, "given_content", EmptyStr)
        c1 == IF Truthy(given_content) THEN <<given_content>> ELSE <<>>
        content == IF Truthy(website_url) /\ TruthyOpt(web_content)
                   THEN Append(c1, web_content.val) ELSE c1
    IN SetItem(st, "website_content",
               IF Truthy(content) THEN StrJoin(<<"\n\n">>, content) ELSE EmptyStr)

\* the merged text stored under the key of the literal text
get_website_content_WrongKey(st, web_content) ==
    LET website_url == Get(st, "website_url", EmptyStr)
        given_content == Get(st, "given_content", EmptyStr)
        c1 == IF Truthy(website_url) /\ TruthyOpt(web_content)
              THEN <<web_content.val>> ELSE <<>>
        content == IF Truthy(given_content) THEN Append(c1, given_content) ELSE c1
    IN SetItem(SetItem(st, "website_content", EmptyStr), "given_content",
               IF Truthy(content) THEN StrJoin(<<"\n\n">>, content) ELSE EmptyStr)

\* the body of get_website_content, given the result of the fetch
get_website_content(st, web_content) ==
    LET website_url == Get(st, "website_url", EmptyStr)
        given_content == Get(st, "given_content", EmptyStr)
        c1 == IF Truthy(website_url) /\ TruthyOpt(web_content)
              THEN <<web_content.val>> ELSE <<>>
        content == IF Truthy(given_content) THEN Append(c1, given_content) ELSE c1
    IN SetItem(st, "website_content",
               IF Truthy(content) THEN StrJoin(<<"\n\n">>, content) ELSE EmptyStr)

----------------------------------------------------------------------------
(* main.py: generate_content_insights *)

\* a loop that makes one call more than range(3) does
NumInsights_Four == 2 + 2

NumInsights == 3

InsightTitle(n) ==
    CASE n = 0 -> "Insight 0"
      [] n = 1 -> "Insight 1"
      [] n = 2 -> "Insight 2"
      [] n = 3 -> "Insight 3"
      [] OTHER -> "Insight ?"

\* the fallback titled with the 0-based loop variable
FallbackInsight_ZeroBased(idx) ==
    ContentInsight(InsightTitle(idx),
                   "Unable to generate insight. Please try again.", "N/A", "N/A")

\* the fallback insight of loop iteration idx (0-based)
FallbackInsight(idx) ==
    ContentInsight(InsightTitle(idx + 1),
                   "Unable to generate insight. Please try again.", "N/A", "N/A")

\* the except branch that forgets to append
InsightsAfter_NoFallback(ins, idx, call, out) ==
    IF call = "ok" THEN Append(ins, out) ELSE ins

\* the list `insights` after iteration idx, whose model call answered `out`
\* (call = "ok") or raised (call = "fail")
InsightsAfter(ins, idx, call, out) ==
    IF call = "ok" THEN Append(ins, out) ELSE Append(ins, FallbackInsight(idx))

----------------------------------------------------------------------------
(* main.py: generate_linkedin_posts, generate_single_post *)

\* the Send payload built for one insight
SendArg(st, insight) ==
    [insight |-> insight, tone |-> st["tone"],
     target_audience |-> st["target_audience"],
     value_proposition |-> st["value_proposition"],
     brand_persona |-> st["brand_persona"]]

\* two Sends per insight
generate_linkedin_posts_Twice(st) ==
    LET content_insights == Get(st, "content_insights", <<>>)
    IN [k \in 1..(2 * Len(content_insights)) |-> SendArg(st, content_insights[(k + 1) \div 2])]

\* the list of Send payloads, one per entry of content_insights, in order
generate_linkedin_posts(st) ==
    LET content_insights == Get(st, "content_insights", <<>>)
    IN [k \in 1..Len(content_insights) |-> SendArg(st, content_insights[k])]

\* the post the drafting model answers to the prompt built from arg; the field
\* prompt records what the prompt embedded
GeneratedLinkedinPost(arg, text) ==
    [title |-> text, hook |-> "hook", body |-> "body", call_to_action |-> "cta",
     prompt |-> arg]

\* an except branch that logs and returns nothing instead of re-raising
generate_single_post_Swallow(arg, call, text) ==
    IF call = "ok"
    THEN [kind |-> "return",
          value |-> [k \in {"linkedin_posts"} |-> <<GeneratedLinkedinPost(arg, text)>>]]
    ELSE [kind |-> "return", value |-> EmptyDict]

\* generate_single_post on the Send payload arg, when the model call answers
\* text (call = "ok") or raises (call = "fail")
generate_single_post(arg, call, text) ==
    IF call = "ok"
    THEN [kind |-> "return",
          value |-> [k \in {"linkedin_posts"} |-> <<GeneratedLinkedinPost(arg, text)>>]]
    ELSE [kind |-> "raise", value |-> EmptyDict]

----------------------------------------------------------------------------
(* main.py: select_best_post *)

PyInt(n) == [type |-> "int", val |-> n]
PyList(l) == [type |-> "list", val |-> l]

\* lst[key] of a Python list: an int key indexes (0-based, negative from the
\* end), any other key raises TypeError
Subscript(lst, key) ==
    IF key.type # "int" THEN [exc |-> "TypeError"]
    ELSE IF key.val >= 0 /\ key.val < Len(lst) THEN [exc |-> "none", val |-> lst[key.val + 1]]
    ELSE IF key.val < 0 /\ -key.val <= Len(lst) THEN [exc |-> "none", val |-> lst[Len(lst) + key.val + 1]]
    ELSE [exc |-> "IndexError"]

FallbackReason == "Default selection due to error in best post selection"

\* a guard that never takes the early return
NoPosts_Never(linkedin_posts) == FALSE

\* the guard of the early return: `not linkedin_posts`
NoPosts(linkedin_posts) == ~Truthy(linkedin_posts)

\* the except branch of select_best_post: its Title argument is evaluated first
SelectionFallback(linkedin_posts) ==
    LET first == IF Truthy(linkedin_posts)
                 THEN Subscript(linkedin_posts, PyList(<<0>>))
                 ELSE [exc |-> "none"]
    IN IF first.exc # "none"
       THEN [kind |-> "raise", exc |-> first.exc, value |-> EmptyDict, issued |-> TRUE]
       ELSE [kind |-> "return", exc |-> "none", issued |-> TRUE,
             value |-> [k \in {"best_selected", "linkedin_posts"} |->
                          IF k = "best_selected"
                          THEN SelectedBestPost(1, FallbackReason)
                          ELSE linkedin_posts]]

\* select_best_post on state st, when the selection model answers the id
\* `id` (call = "ok") or raises (call = "fail"); issued tells whether the
\* model was called at all
select_best_post(st, call, id) ==
    LET linkedin_posts == Get(st, "linkedin_posts", <<>>)
    IN IF NoPosts(linkedin_posts)
       THEN [kind |-> "return", exc |-> "none", value |-> st, issued |-> FALSE]
       ELSE IF call = "ok"
       THEN [kind |-> "return", exc |-> "none", issued |-> TRUE,
             value |-> [k \in {"best_selected", "linkedin_posts"} |->
                          IF k = "best_selected"
                          THEN SelectedBestPost(id, "model reason")
                          ELSE linkedin_posts]]
       ELSE SelectionFallback(linkedin_posts)

----------------------------------------------------------------------------
(* The compiled graph: StateGraph(GraphState) with the edges of            *)
(* main.py:222-226.  Every key of GraphState without a reducer annotation  *)
(* is a last-value channel: it takes at most one write per step.  A node's *)
(* returned dict is written key by key, keys that are not channels are     *)
(* dropped.                                                                *)

\* channels declared with a reducer (Annotated[..., add_messages])
ReducerKeys == {"messages"}

LastValueKeys == GraphStateKeys \ ReducerKeys

\* the dicts of rets that write channel key, in task order
Writes(key, rets) == SelectSeq(rets, LAMBDA d : key \in DOMAIN d)

\* some last-value channel receives more than one write in the step
WriteConflict(rets) ==
    \E key \in LastValueKeys : Len(Writes(key, rets)) > 1

\* linkedin_posts as a channel that appends what is written to it
ApplyWrites_Append(st, rets) ==
    LET written == {key \in LastValueKeys : Len(Writes(key, rets)) > 0}
    IN [k \in DOMAIN st \cup written |->
          IF k \in written
          THEN IF k = "linkedin_posts" /\ k \in DOMAIN st
               THEN st[k] \o Writes(k, rets)[1][k]
               ELSE Writes(k, rets)[1][k]
          ELSE st[k]]

\* the state after the writes of one step (no conflict)
ApplyWrites(st, rets) ==
    LET written == {key \in LastValueKeys : Len(Writes(key, rets)) > 0}
    IN [k \in DOMAIN st \cup written |->
          IF k \in written THEN Writes(k, rets)[1][k] ELSE st[k]]

\* an edge from generate_content_insights back to get_website_content
Edge_Cycle(node) ==
    CASE node = "START" -> "get_website_content"
      [] node = "get_website_content" -> "generate_content_insights"
      [] node = "generate_content_insights" -> "get_website_content"
      [] node = "generate_linkedin_posts" -> "generate_single_post"
      [] node = "generate_single_post" -> "select_best_post"
      [] node = "select_best_post" -> "END"
      [] OTHER -> "END"

\* add_edge / add_conditional_edges
Edge(node) ==
    CASE node = "START" -> "get_website_content"
      [] node = "get_website_content" -> "generate_content_insights"
      [] node = "generate_content_insights" -> "generate_linkedin_posts"
      [] node = "generate_linkedin_posts" -> "generate_single_post"
      [] node = "generate_single_post" -> "select_best_post"
      [] node = "select_best_post" -> "END"
      [] OTHER -> "END"

----------------------------------------------------------------------------
(* utils.py: check_password; streamlit_app.py: the session state            *)

\* st.secrets["password"]
Secret == "s3cret"

\* what a user can type into the password field; the last is not ASCII
Passwords == {"", "s3cret", "S3CRET", "guess", "s3crét"}

NonAscii == {"s3crét"}

\* del d[key]
DelItem(d, key) == [k \in DOMAIN d \ {key} |-> d[k]]

\* bool(d) of a dict
TruthyDict(d) == DOMAIN d # {}

\* hmac.compare_digest(a, b) on two str: equality, TypeError when either
\* holds a character that is not ASCII
compare_digest(a, b) ==
    IF a \in NonAscii \/ b \in NonAscii
    THEN [exc |-> "TypeError", val |-> FALSE]
    ELSE [exc |-> "none", val |-> a = b]

\* a callback that keeps the password it has accepted
password_entered_KeepPassword(ss) ==
    LET c == compare_digest(ss["password"], Secret)
    IN IF c.exc # "none" THEN [exc |-> c.exc, ss |-> ss]
       ELSE IF c.val
       THEN [exc |-> "none", ss |-> SetItem(ss, "password_correct", TRUE)]
       ELSE [exc |-> "none", ss |-> SetItem(ss, "password_correct", FALSE)]

\* the on_change callback of the password field
password_entered(ss) ==
    LET c == compare_digest(ss["password"], Secret)
    IN IF c.exc # "none" THEN [exc |-> c.exc, ss |-> ss]
       ELSE IF c.val
       THEN [exc |-> "none",
             ss |-> DelItem(SetItem(ss, "password_correct", TRUE), "password")]
       ELSE [exc |-> "none", ss |-> SetItem(ss, "password_correct", FALSE)]

\* check_password(): its return value, the session state it leaves (a field
\* with a key puts its value, "" at first, under that key) and the widgets
\* it rendered
check_password(ss) ==
    IF Get(ss, "password_correct", FALSE)
    THEN [ret |-> TRUE, ss |-> ss, widgets |-> {}]
    ELSE [ret |-> FALSE,
          ss |-> IF "password" \in DOMAIN ss THEN ss ELSE SetItem(ss, "password", ""),
          widgets |-> {"password"}]

\* setup_sidebar(), as far as the session state goes
setup_sidebar(ss) ==
    IF "feedback" \notin DOMAIN ss THEN SetItem(ss, "feedback", "") ELSE ss

initialize_session_state(ss) ==
    LET s1 == IF "generated_content" \notin DOMAIN ss
              THEN SetItem(ss, "generated_content", None) ELSE ss
    IN IF "is_generating" \notin DOMAIN s1
       THEN SetItem(s1, "is_generating", FALSE) ELSE s1

\* the input fields as the page first shows them; the tone comes from a
\* selectbox and is never empty
DefaultForm ==
    [website_url |-> EmptyStr, given_content |-> EmptyStr, tone |-> <<"tone">>,
     target_audience |-> EmptyStr, value_proposition |-> EmptyStr,
     brand_persona |-> EmptyStr]

\* a page no script has run for yet
NoPage ==
    [pc |-> "new", widgets |-> {}, disabled |-> FALSE, last |-> "none",
     submitted |-> "", form |-> DefaultForm, inputs |-> EmptyDict]

----------------------------------------------------------------------------
(* run_workflow(inputs): workflow.invoke(inputs), one step per node        *)

NoError == [exc |-> "none", origin |-> "none"]

\* the dict the caller passes (streamlit_app.py:133-140)
Inputs(url, given) ==
    [website_url |-> url, given_content |-> given, tone |-> <<"tone">>,
     target_audience |-> <<"audience">>, value_proposition |-> <<"value">>,
     brand_persona |-> <<"persona">>]

\* a Send task that has not started
Spawned(arg) ==
    [arg |-> arg, call |-> "none", calls |-> 0, status |-> "spawned",
     late |-> FALSE, ret |-> EmptyDict]

Init ==
    /\ pc = "START"
    /\ state \in {Inputs(u, g) : u \in Urls, g \in GivenContents}
    /\ i = 0
    /\ insights = <<>>
    /\ insight_calls = <<>>
    /\ insight_out = <<>>
    /\ branches = <<>>
    /\ sel_call = "none"
    /\ sel_in = EmptyDict
    /\ ret = EmptyDict
    /\ outcome = "running"
    /\ error = NoError
    /\ entered = <<>>
    /\ fetched = <<>>
    /\ session_state = EmptyDict
    /\ ui = NoPage

\* the run enters node n
Enter(n) == entered' = Append(entered, n)

\* the exception exc leaves workflow.invoke; run_workflow logs and re-raises it
Raise(exc, origin) ==
    /\ pc' = "raised"
    /\ outcome' = "raised"
    /\ error' = [exc |-> exc, origin |-> origin]

\* add_edge(START, "get_website_content")
Start ==
    /\ pc = "START"
    /\ pc' = Edge("START")
    /\ Enter(Edge("START"))
    /\ UNCHANGED <<state, i, insights, insight_calls, insight_out, branches,
                   sel_call, sel_in, ret, outcome, error>>
    /\ UNCHANGED fetched
    /\ UNCHANGED <<session_state, ui>>

\* how the loader call of a fetch went: not reached, raised, no document, a document
LoadKind(url, load) ==
    IF ensure_url(url).exc # "none" THEN "none"
    ELSE IF load.kind = "raise" THEN "raise"
    ELSE IF Truthy(load.docs) THEN "docs" ELSE "nodocs"

\* node get_website_content; the fetch is attempted only for a non-empty url
GetWebsiteContent ==
    /\ pc = "get_website_content"
    /\ LET website_url == Get(state, "website_url", EmptyStr)
       IN IF Truthy(website_url)
          THEN \E load \in LoadOutcomes :
                 LET r == fetch_website_content(website_url, load)
                 IN /\ ensure_url(website_url).exc # "none" => load.kind = "raise"
                    /\ fetched' = Append(fetched,
                                         [url |-> website_url,
                                          validated |-> ensure_url(website_url),
                                          invalid |-> ensure_url(website_url).exc # "none",
                                          load |-> LoadKind(website_url, load),
                                          kind |-> r.kind,
                                          result |-> r.val])
                    /\ IF r.kind = "raise"
                       THEN /\ Raise(r.exc, "get_website_content")
                            /\ UNCHANGED <<state, ret, entered>>
                       ELSE /\ state' = get_website_content(state, r.val)
                            /\ ret' = state'
                            /\ pc' = Edge("get_website_content")
                            /\ Enter(Edge("get_website_content"))
                            /\ UNCHANGED <<outcome, error>>
          ELSE /\ fetched' = fetched
               /\ state' = get_website_content(state, None)
               /\ ret' = state'
               /\ pc' = Edge("get_website_content")
               /\ Enter(Edge("get_website_content"))
               /\ UNCHANGED <<outcome, error>>
    /\ UNCHANGED <<i, insights, insight_calls, insight_out, branches, sel_call, sel_in>>
    /\ UNCHANGED <<session_state, ui>>

\* one iteration of the loop of generate_content_insights; the last one
\* stores the list and returns the state
InsightCall ==
    /\ pc = "generate_content_insights"
    /\ i < NumInsights
    /\ \E call \in {"ok", "fail"}, out \in ModelInsights \cup {NoOutput} :
         /\ (call = "ok") <=> (out \in ModelInsights)
         /\ insights' = InsightsAfter(insights, i, call, out)
         /\ insight_calls' = Append(insight_calls, call)
         /\ insight_out' = Append(insight_out, out)
    /\ i' = i + 1
    /\ IF i' = NumInsights
       THEN /\ state' = SetItem(state, "content_insights", insights')
            /\ ret' = state'
            /\ pc' = Edge("generate_content_insights")
       ELSE UNCHANGED <<state, ret, pc>>
    /\ UNCHANGED <<branches, sel_call, sel_in, outcome, error, entered>>
    /\ UNCHANGED fetched
    /\ UNCHANGED <<session_state, ui>>

\* the conditional edge: generate_linkedin_posts returns one Send per insight;
\* with no Send no node is left to run and invoke returns the state
GenerateLinkedinPosts ==
    /\ pc = "generate_linkedin_posts"
    /\ branches' = [k \in DOMAIN generate_linkedin_posts(state) |->
                      Spawned(generate_linkedin_posts(state)[k])]
    /\ IF Len(branches') = 0
       THEN /\ pc' = "END"
            /\ outcome' = "returned"
            /\ Enter("END")
       ELSE /\ pc' = Edge("generate_linkedin_posts")
            /\ outcome' = outcome
            /\ Enter(Edge("generate_linkedin_posts"))
    /\ UNCHANGED <<state, i, insights, insight_calls, insight_out,
                   sel_call, sel_in, ret, error>>
    /\ UNCHANGED fetched
    /\ UNCHANGED <<session_state, ui>>

\* branch k starts generate_single_post and issues its model call
BranchStart(k) ==
    /\ pc = "generate_single_post"
    /\ branches[k].status = "spawned"
    /\ branches' = [branches EXCEPT ![k].status = "running", ![k].call = "issued",
                                    ![k].calls = @ + 1]
    /\ UNCHANGED <<pc, state, i, insights, insight_calls, insight_out,
                   sel_call, sel_in, ret, outcome, error, entered>>
    /\ UNCHANGED fetched
    /\ UNCHANGED <<session_state, ui>>

\* the model call of branch k answers or fails, generate_single_post returns
\* or raises; a call already issued finishes even when a sibling has failed
\* the step (late)
BranchFinish(k) ==
    /\ pc \in {"generate_single_post", "generate_single_post.failed"}
    /\ branches[k].status = "running"
    /\ \E call \in {"ok", "fail"}, text \in ModelPostTexts :
         LET r == generate_single_post(branches[k].arg, call, text)
         IN branches' = [branches EXCEPT
                           ![k].call = call,
                           ![k].status = IF r.kind = "return" THEN "returned" ELSE "raised",
                           ![k].late = (pc = "generate_single_post.failed"),
                           ![k].ret = r.value]
    /\ UNCHANGED <<pc, state, i, insights, insight_calls, insight_out,
                   sel_call, sel_in, ret, outcome, error, entered>>
    /\ UNCHANGED fetched
    /\ UNCHANGED <<session_state, ui>>

\* a failure that also cancels the siblings whose call is in flight
OnStepFailure_CancelRunning(b) ==
    IF b.status \in {"spawned", "running"} THEN [b EXCEPT !.status = "cancelled"] ELSE b

\* what the failure of the step does to a sibling task: one that has not
\* started is cancelled, one that runs (a thread in its model call) is left alone
OnStepFailure(b) ==
    IF b.status = "spawned" THEN [b EXCEPT !.status = "cancelled"] ELSE b

\* a branch raised: the step fails, no further task is started
Abort ==
    /\ pc = "generate_single_post"
    /\ \E k \in DOMAIN branches : branches[k].status = "raised"
    /\ pc' = "generate_single_post.failed"
    /\ branches' = [k \in DOMAIN branches |-> OnStepFailure(branches[k])]
    /\ UNCHANGED <<state, i, insights, insight_calls, insight_out,
                   sel_call, sel_in, ret, outcome, error, entered>>
    /\ UNCHANGED fetched
    /\ UNCHANGED <<session_state, ui>>

\* the tasks in flight are waited for, then the exception of the branch
\* leaves invoke and run_workflow re-raises it
AbortRaise ==
    /\ pc = "generate_single_post.failed"
    /\ \A k \in DOMAIN branches : branches[k].status # "running"
    /\ Raise("ModelError", "generate_single_post")
    /\ UNCHANGED <<state, i, insights, insight_calls, insight_out, branches,
                   sel_call, sel_in, ret, entered>>
    /\ UNCHANGED fetched
    /\ UNCHANGED <<session_state, ui>>

\* a join that proceeds as soon as one branch has returned
JoinReady_Any(bs) == \E k \in DOMAIN bs : bs[k].status = "returned"

\* the step of the branches is over: every task has returned
JoinReady(bs) == \A k \in DOMAIN bs : bs[k].status = "returned"

\* the dicts the branches returned, in Send order
BranchReturns == [k \in DOMAIN branches |-> branches[k].ret]

\* all branches returned: their writes are applied in one step, then the edge
\* generate_single_post -> select_best_post is followed
Join ==
    /\ pc = "generate_single_post"
    /\ JoinReady(branches)
    /\ IF WriteConflict(BranchReturns)
       THEN /\ Raise("InvalidUpdateError", "join")
            /\ UNCHANGED <<state, entered>>
       ELSE /\ state' = ApplyWrites(state, BranchReturns)
            /\ pc' = Edge("generate_single_post")
            /\ Enter(Edge("generate_single_post"))
            /\ UNCHANGED <<outcome, error>>
    /\ UNCHANGED <<i, insights, insight_calls, insight_out, branches,
                   sel_call, sel_in, ret>>
    /\ UNCHANGED fetched
    /\ UNCHANGED <<session_state, ui>>

\* node select_best_post, with the answer of the selection model
SelectBestPost ==
    /\ pc = "select_best_post"
    /\ \E call \in {"ok", "fail"}, id \in ModelIds :
         LET r == select_best_post(state, call, id)
         IN /\ (call = "fail" \/ ~r.issued) => id = 0
            /\ (~r.issued) => call = "ok"
            /\ sel_call' = IF r.issued THEN call ELSE "none"
            /\ IF r.kind = "raise"
               THEN /\ Raise(r.exc, "select_best_post")
                    /\ ret' = ret
               ELSE /\ ret' = r.value
                    /\ pc' = "select_best_post.writes"
                    /\ UNCHANGED <<outcome, error>>
    /\ sel_in' = state
    /\ UNCHANGED <<state, i, insights, insight_calls, insight_out, branches, entered>>
    /\ UNCHANGED fetched
    /\ UNCHANGED <<session_state, ui>>

\* the writes of select_best_post are applied, then
\* add_edge("select_best_post", END): invoke returns the state
SelectWrites ==
    /\ pc = "select_best_post.writes"
    /\ state' = ApplyWrites(state, <<ret>>)
    /\ pc' = Edge("select_best_post")
    /\ Enter(Edge("select_best_post"))
    /\ outcome' = "returned"
    /\ UNCHANGED <<i, insights, insight_calls, insight_out, branches,
                   sel_call, sel_in, ret, error>>
    /\ UNCHANGED fetched
    /\ UNCHANGED <<session_state, ui>>

\* run_workflow from the caller's inputs.  TLC finds SelectBestPost and
\* SelectWrites never enabled from Init (see the Join), so Next lists the
\* steps up to the join.
Next ==
    \/ Start
    \/ GetWebsiteContent
    \/ InsightCall
    \/ GenerateLinkedinPosts
    \/ \E k \in DOMAIN branches : BranchStart(k)
    \/ \E k \in DOMAIN branches : BranchFinish(k)
    \/ Abort
    \/ AbortRaise
    \/ Join

Spec == Init /\ [][Next]_vars

----------------------------------------------------------------------------
(* The fan-out and the join alone: the graph from the conditional edge on, *)
(* for lists of insights of every length up to MaxInsights                 *)

SeqsUpTo(S, n) == UNION {[1..m -> S] : m \in 0..n}

\* a state as generate_content_insights leaves it, content_insights aside
AcquiredState == get_website_content(Inputs(ExampleCom, <<"given">>), Some(<<"web">>))

InitDraft ==
    /\ pc = "generate_linkedin_posts"
    /\ \E cis \in SeqsUpTo(ModelInsights \cup {FallbackInsight(0)}, MaxInsights) :
         state = SetItem(AcquiredState, "content_insights", cis)
    /\ i = 0
    /\ insights = <<>>
    /\ insight_calls = <<>>
    /\ insight_out = <<>>
    /\ branches = <<>>
    /\ sel_call = "none"
    /\ sel_in = EmptyDict
    /\ ret = EmptyDict
    /\ outcome = "running"
    /\ error = NoError
    /\ entered = <<>>
    /\ fetched = <<>>
    /\ session_state = EmptyDict
    /\ ui = NoPage

NextDraft ==
    \/ GenerateLinkedinPosts
    \/ \E k \in DOMAIN branches : BranchStart(k)
    \/ \E k \in DOMAIN branches : BranchFinish(k)
    \/ Abort
    \/ AbortRaise
    \/ Join
    \/ SelectBestPost
    \/ SelectWrites

SpecDraft == InitDraft /\ [][NextDraft]_vars

----------------------------------------------------------------------------
(* select_best_post alone: the node entered with post lists of every       *)
(* length up to MaxPosts, or with no linkedin_posts key                    *)

\* posts as the drafting branches produce them
PostValues ==
    {GeneratedLinkedinPost(SendArg(AcquiredState, ins), text) :
        ins \in ModelInsights, text \in ModelPostTexts}

InitSelect ==
    /\ pc = "select_best_post"
    /\ \/ state = AcquiredState
       \/ \E ps \in SeqsUpTo(PostValues, MaxPosts) :
            state = SetItem(AcquiredState, "linkedin_posts", ps)
    /\ i = 0
    /\ insights = <<>>
    /\ insight_calls = <<>>
    /\ insight_out = <<>>
    /\ branches = <<>>
    /\ sel_call = "none"
    /\ sel_in = EmptyDict
    /\ ret = EmptyDict
    /\ outcome = "running"
    /\ error = NoError
    /\ entered = <<"select_best_post">>
    /\ fetched = <<>>
    /\ session_state = EmptyDict
    /\ ui = NoPage

NextSelect ==
    \/ SelectBestPost
    \/ SelectWrites

SpecSelect == InitSelect /\ [][NextSelect]_vars

----------------------------------------------------------------------------
(* get_website_content alone: the node entered with every url of up to     *)
(* MaxUrlLen characters after an optional scheme                           *)

UrlAlphabet == {"a", ".", ":", "/", "1", " ", "?"}

UrlStrings ==
    {scheme \o rest : scheme \in {EmptyStr, HttpPrefix, HttpsPrefix},
                      rest \in SeqsUpTo(UrlAlphabet, MaxUrlLen)}
    \cup {ExampleCom, HttpPrefix \o ExampleCom, HttpsPrefix \o ExampleCom, NotAUrl}

InitUrl ==
    /\ pc = "get_website_content"
    /\ state \in {Inputs(u, g) : u \in UrlStrings, g \in GivenContents}
    /\ i = 0
    /\ insights = <<>>
    /\ insight_calls = <<>>
    /\ insight_out = <<>>
    /\ branches = <<>>
    /\ sel_call = "none"
    /\ sel_in = EmptyDict
    /\ ret = EmptyDict
    /\ outcome = "running"
    /\ error = NoError
    /\ entered = <<"get_website_content">>
    /\ fetched = <<>>
    /\ session_state = EmptyDict
    /\ ui = NoPage

NextUrl == GetWebsiteContent

SpecUrl == InitUrl /\ [][NextUrl]_vars

----------------------------------------------------------------------------
(* streamlit_app.py: main(), one browser session. The script runs from the  *)
(* top at every interaction; a callback runs before the script; the script  *)
(* blocks inside run_workflow, whose outcome is drawn from what its          *)
(* signature admits: it raises, or returns a dict                            *)

pipeline == <<pc, state, i, insights, insight_calls, insight_out, branches,
              sel_call, sel_in, ret, outcome, error, entered, fetched>>

\* main() from the top down to the Generate button: the session state it
\* leaves, the widgets it rendered, whether st.stop() ended it
RunPage(ss) ==
    LET cp == check_password(setup_sidebar(ss))
    IN IF ~cp.ret
       THEN [ss |-> cp.ss, widgets |-> cp.widgets, disabled |-> FALSE, stopped |-> TRUE]
       ELSE LET s2 == initialize_session_state(cp.ss)
            IN [ss |-> s2, widgets |-> {"generate"},
                disabled |-> s2["is_generating"], stopped |-> FALSE]

\* what the user can put into an input field
FieldValues(f) ==
    CASE f = "website_url" -> {EmptyStr, ExampleCom}
      [] f = "given_content" -> GivenContents
      [] f = "target_audience" -> {EmptyStr, <<"audience">>}
      [] f = "value_proposition" -> {EmptyStr, <<"value">>}
      [] f = "brand_persona" -> {EmptyStr, <<"persona">>}

\* the two checks before the try block
Valid(form) ==
    /\ Truthy(form.website_url) \/ Truthy(form.given_content)
    /\ \A f \in {"tone", "target_audience", "value_proposition", "brand_persona"} :
          Truthy(form[f])

\* run_workflow(inputs) -> Dict[str, Any]
WorkflowOutcomes(inputs) ==
    {[kind |-> "raise", val |-> EmptyDict],
     [kind |-> "return", val |-> EmptyDict],
     [kind |-> "return", val |-> inputs]}

\* a handler without the finally clause
Finally_Skip(ss) == ss

\* finally: st.session_state.is_generating = False
Finally(ss) == SetItem(ss, "is_generating", FALSE)

Idle(r, last) ==
    [pc |-> "idle", widgets |-> r.widgets, disabled |-> r.disabled, last |-> last,
     submitted |-> ui.submitted, form |-> ui.form, inputs |-> EmptyDict]

InitUI ==
    /\ pc = "START"
    /\ state = Inputs(EmptyStr, <<"given">>)
    /\ i = 0
    /\ insights = <<>>
    /\ insight_calls = <<>>
    /\ insight_out = <<>>
    /\ branches = <<>>
    /\ sel_call = "none"
    /\ sel_in = EmptyDict
    /\ ret = EmptyDict
    /\ outcome = "running"
    /\ error = NoError
    /\ entered = <<>>
    /\ fetched = <<>>
    /\ session_state = EmptyDict
    /\ ui = NoPage

\* the page is loaded, or run again with no button pressed
PageRun ==
    /\ ui.pc \in {"new", "idle"}
    /\ LET r == RunPage(session_state)
       IN /\ session_state' = r.ss
          /\ ui' = Idle(r, "load")
    /\ UNCHANGED pipeline

\* the user changes the password field to p: the field's value goes under
\* its key, password_entered runs, then the script (not when the callback raised)
SubmitPassword(p) ==
    /\ ui.pc = "idle"
    /\ "password" \in ui.widgets
    /\ p # session_state["password"]
    /\ LET cb == password_entered(SetItem(session_state, "password", p))
       IN IF cb.exc # "none"
          THEN /\ session_state' = cb.ss
               /\ ui' = [Idle([widgets |-> {}, disabled |-> FALSE], "submit_error")
                            EXCEPT !.submitted = p]
          ELSE LET r == RunPage(cb.ss)
               IN /\ session_state' = r.ss
                  /\ ui' = [Idle(r, "submit") EXCEPT !.submitted = p]
    /\ UNCHANGED pipeline

\* the user changes input field f to v; the script runs again
EditField(f, v) ==
    /\ ui.pc = "idle"
    /\ "generate" \in ui.widgets
    /\ v # ui.form[f]
    /\ LET r == RunPage(session_state)
       IN /\ session_state' = r.ss
          /\ ui' = [Idle(r, "edit") EXCEPT !.form[f] = v]
    /\ UNCHANGED pipeline

\* the user presses Generate: the script runs with the button True, up to
\* the call of run_workflow unless a check rejects the form
ClickGenerate ==
    /\ ui.pc = "idle"
    /\ "generate" \in ui.widgets
    /\ ~ui.disabled
    /\ LET r == RunPage(session_state)
       IN IF r.stopped
          THEN /\ session_state' = r.ss
               /\ ui' = Idle(r, "load")
          ELSE IF ~Valid(ui.form)
          THEN /\ session_state' = r.ss
               /\ ui' = Idle(r, "rejected")
          ELSE /\ session_state' = SetItem(r.ss, "is_generating", TRUE)
               /\ ui' = [pc |-> "run_workflow", widgets |-> r.widgets,
                         disabled |-> r.disabled, last |-> "clicked",
                         submitted |-> ui.submitted, form |-> ui.form,
                         inputs |-> ui.form]
    /\ UNCHANGED pipeline

\* run_workflow returns: a truthy result is stored and st.rerun() leaves the
\* try block through finally, then the script runs again
WorkflowReturns ==
    /\ ui.pc = "run_workflow"
    /\ \E o \in WorkflowOutcomes(ui.inputs) :
          /\ o.kind = "return"
          /\ IF TruthyDict(o.val)
             THEN LET r == RunPage(Finally(SetItem(session_state, "generated_content", o.val)))
                  IN /\ session_state' = r.ss
                     /\ ui' = Idle(r, "returned")
             ELSE /\ session_state' = Finally(session_state)
                  /\ ui' = Idle([widgets |-> ui.widgets, disabled |-> ui.disabled], "returned")
    /\ UNCHANGED pipeline

\* run_workflow raises: except shows the error, then finally
WorkflowRaises ==
    /\ ui.pc = "run_workflow"
    /\ \E o \in WorkflowOutcomes(ui.inputs) :
          /\ o.kind = "raise"
          /\ session_state' = Finally(session_state)
          /\ ui' = Idle([widgets |-> ui.widgets, disabled |-> ui.disabled], "raised")
    /\ UNCHANGED pipeline

NextUI ==
    \/ PageRun
    \/ \E p \in Passwords : SubmitPassword(p)
    \/ \E f \in DOMAIN DefaultForm \ {"tone"} : \E v \in FieldValues(f) : EditField(f, v)
    \/ ClickGenerate
    \/ WorkflowReturns
    \/ WorkflowRaises

SpecUI == InitUI /\ [][NextUI]_vars

----------------------------------------------------------------------------
(* run_workflow when every external call made eventually returns or fails  *)
(* (timeout=120, max_retries=2 on both clients): a step that can be taken  *)
(* is eventually taken                                                     *)

FairSpec == Spec /\ WF_vars(Next)

----------------------------------------------------------------------------
(* Properties *)

Range(q) == {q[n] : n \in DOMAIN q}

IsPrefix(p, q) == Len(p) <= Len(q) /\ \A n \in 1..Len(p) : p[n] = q[n]

Times(x, q) == Cardinality({n \in DOMAIN q : q[n] = x})

Posts(st) == Get(st, "linkedin_posts", <<>>)

SomeDraftCallFailed == \E k \in DOMAIN branches : branches[k].call = "fail"

AllDraftCallsOk ==
    /\ Len(branches) >= 1
    /\ \A k \in DOMAIN branches : branches[k].call = "ok"

\* C1: Post Drafting is fail-fast.  Once the model call of a drafting branch
\* has failed, the branch has raised (the error is not swallowed), the run
\* never returns a result, the only exception run_workflow raises is the
\* branch's, and select_best_post is never entered.
C1_DraftingFailFast ==
    SomeDraftCallFailed =>
        /\ \A k \in DOMAIN branches :
              branches[k].call = "fail" => branches[k].status = "raised"
        /\ pc \in {"generate_single_post", "generate_single_post.failed", "raised"}
        /\ outcome # "returned"
        /\ outcome = "raised" =>
              error = [exc |-> "ModelError", origin |-> "generate_single_post"]
        /\ "select_best_post" \notin Range(entered)

\* a run aborted by a failed branch while a sibling had drafted its post
C1_Witness ==
    /\ outcome = "raised"
    /\ error.origin = "generate_single_post"
    /\ \E k \in DOMAIN branches : branches[k].call = "fail"
    /\ \E k \in DOMAIN branches : branches[k].call = "ok"

\* C2: when all N >= 1 drafting calls have succeeded and the join has run,
\* linkedin_posts holds exactly N posts, as many as content_insights.
C2_OnePostPerInsight ==
    (AllDraftCallsOk /\ pc # "generate_single_post") =>
        /\ "linkedin_posts" \in DOMAIN state
        /\ Len(state["linkedin_posts"]) = Len(state["content_insights"])

\* C3: when the selection model call fails on a non-empty post list, the
\* node does not raise: the run goes on to return, with best_selected.id = 1
\* and the fixed fallback reason.
C3_SelectionFallsBack ==
    (sel_call = "fail" /\ Len(Posts(sel_in)) > 0) =>
        /\ outcome # "raised"
        /\ pc \in {"select_best_post.writes", "END"}
        /\ "best_selected" \in DOMAIN ret
        /\ ret["best_selected"].id = 1
        /\ ret["best_selected"].reason = "Default selection due to error in best post selection"

InsightsDone ==
    "generate_content_insights" \in Range(entered) /\ pc # "generate_content_insights"

\* C4: after generate_content_insights, content_insights has exactly 3
\* entries whichever of the 3 model calls failed; while the node runs the
\* run never fails.
C4_ThreeInsights ==
    /\ pc = "generate_content_insights" => (outcome = "running" /\ Len(insights) = i)
    /\ InsightsDone =>
          /\ "content_insights" \in DOMAIN state
          /\ Len(state["content_insights"]) = 3
          /\ Len(insight_calls) = 3

\* the node is over with the first and the last call failed
C4_Witness ==
    /\ pc = "generate_linkedin_posts"
    /\ insight_calls = <<"fail", "ok", "fail">>
    /\ Len(state["content_insights"]) = 3

PlaceholderInsight(title) ==
    [title |-> title, description |-> "Unable to generate insight. Please try again.",
     audience_relevance |-> "N/A", value_alignment |-> "N/A"]

\* C5: entry n of the insights is the fallback titled "Insight n" when call n
\* failed and the model's output of call n when it succeeded, as soon as
\* call n is over and from then on; all three calls are issued.
C5_PerInsightFallback ==
    /\ \A n \in 1..Len(insight_calls) :
          LET entry == IF InsightsDone THEN state["content_insights"][n] ELSE insights[n]
          IN /\ n <= Len(IF InsightsDone THEN state["content_insights"] ELSE insights)
             /\ insight_calls[n] = "fail" =>
                   entry = PlaceholderInsight(<<"Insight 1", "Insight 2", "Insight 3">>[n])
             /\ insight_calls[n] = "ok" => entry = insight_out[n]
    /\ InsightsDone => Len(insight_calls) = 3

\* the first call failed, the two after it were issued and answered
C5_Witness ==
    /\ InsightsDone
    /\ insight_calls = <<"fail", "ok", "ok">>
    /\ state["content_insights"][2] = insight_out[2]

\* C6: whenever select_best_post sets best_selected, its id lies in 1..N
\* for the N posts it is returned with.
C6_SelectedIdInRange ==
    (pc \in {"select_best_post.writes", "END"} /\ "best_selected" \in DOMAIN ret) =>
        /\ 1 <= ret["best_selected"].id
        /\ ret["best_selected"].id <= Len(ret["linkedin_posts"])

\* C7: the join is a barrier.  select_best_post is entered at most once, only
\* when every branch has returned from a successful call, and the
\* linkedin_posts it sees holds the post of every branch.
C7_JoinIsBarrier ==
    /\ Times("select_best_post", entered) <= 1
    /\ "select_best_post" \in Range(entered) =>
          /\ Len(branches) >= 1
          /\ \A k \in DOMAIN branches :
                branches[k].status = "returned" /\ branches[k].call = "ok"
          /\ Len(Posts(state)) = Len(branches)
          /\ \A k \in DOMAIN branches :
                Posts(state)[k] = branches[k].ret["linkedin_posts"][1]

\* select_best_post entered after the fan-out
C7_Witness ==
    /\ pc = "select_best_post"
    /\ Len(branches) >= 1
    /\ Len(Posts(state)) = Len(branches)

StageOrder ==
    <<"get_website_content", "generate_content_insights", "generate_single_post",
      "select_best_post", "END">>

\* C8: the nodes are entered in the fixed order, each at most once, and a
\* node is entered only when the one before it has finished.
C8_StagesInOrder ==
    /\ IsPrefix(entered, StageOrder)
    /\ "generate_content_insights" \in Range(entered) => "website_content" \in DOMAIN state
    /\ "generate_single_post" \in Range(entered) =>
          (i = NumInsights /\ "content_insights" \in DOMAIN state)
    /\ "select_best_post" \in Range(entered) => JoinReady(branches)
    /\ "END" \in Range(entered) => pc = "END"

\* the run has gone through acquisition and insights and is drafting
C8_Witness ==
    /\ entered = <<"get_website_content", "generate_content_insights", "generate_single_post">>
    /\ \E k \in DOMAIN branches : branches[k].status = "returned"

\* C9: run_workflow either returns a record with content_insights,
\* linkedin_posts and best_selected, or raises the exception of a failed
\* drafting branch; nothing else reaches the caller.
C9_TwoOutcomes ==
    /\ outcome = "returned" =>
          {"content_insights", "linkedin_posts", "best_selected"} \subseteq DOMAIN state
    /\ outcome = "raised" => error.origin = "generate_single_post"

\* C10: entered with an empty linkedin_posts, select_best_post issues no
\* model call, returns the state it was given, sets no best_selected and
\* does not raise; the run returns that state.
C10_EmptyPostsNoOp ==
    (pc # "select_best_post" /\ Len(Posts(sel_in)) = 0) =>
        /\ sel_call = "none"
        /\ ret = sel_in
        /\ "best_selected" \notin DOMAIN ret
        /\ outcome # "raised"
        /\ pc = "END" => (outcome = "returned" /\ state = sel_in)

\* the node has returned from an empty list
C10_Witness ==
    /\ pc = "END"
    /\ "linkedin_posts" \in DOMAIN sel_in
    /\ Len(sel_in["linkedin_posts"]) = 0
    /\ ret = sel_in

\* the web text a fetch brought back, empty when there was none
FetchedWeb ==
    IF Len(fetched) >= 1 /\ fetched[1].result.some THEN fetched[1].result.val ELSE <<>>

\* C11: website_content is the web text, a blank line and the literal text
\* when both are present (web first), the one present when only one is, and
\* empty when neither is; with an empty url no fetch is attempted.
C11_MergedContent ==
    "website_content" \in DOMAIN state =>
        LET web == FetchedWeb
            lit == state["given_content"]
        IN /\ Len(state["website_url"]) = 0 => Len(fetched) = 0
           /\ Len(fetched) <= 1
           /\ (Len(web) > 0 /\ Len(lit) > 0) =>
                 state["website_content"] = web \o <<"\n\n">> \o lit
           /\ (Len(web) > 0 /\ Len(lit) = 0) => state["website_content"] = web
           /\ (Len(web) = 0 /\ Len(lit) > 0) => state["website_content"] = lit
           /\ (Len(web) = 0 /\ Len(lit) = 0) => state["website_content"] = <<>>

\* both texts present
C11_Witness ==
    /\ "website_content" \in DOMAIN state
    /\ state["website_content"] = <<"web", "\n\n", "given">>

\* C12: a fetch that fails (invalid url, loader error, no document) returns
\* None instead of raising; website_content is then the literal text alone
\* and the run goes on to generate_content_insights.
C12_FetchFailureAbsorbed ==
    \A n \in DOMAIN fetched :
        (fetched[n].invalid \/ fetched[n].load \in {"raise", "nodocs"}) =>
            /\ fetched[n].kind = "return"
            /\ fetched[n].result = [some |-> FALSE, val |-> <<>>]
            /\ error.origin # "get_website_content"
            /\ "website_content" \in DOMAIN state
            /\ state["website_content"] = state["given_content"]
            /\ "generate_content_insights" \in Range(entered)

\* the loader raised and the run is generating insights from the literal text
C12_Witness ==
    /\ pc = "generate_content_insights"
    /\ Len(fetched) = 1
    /\ fetched[1].load = "raise"
    /\ state["website_content"] = <<"given">>

InputKeys ==
    {"website_url", "given_content", "tone", "target_audience",
     "value_proposition", "brand_persona", "website_content", "content_insights"}

\* C13: in every step no key of the state is removed and no key among
\* website_url, given_content, tone, target_audience, value_proposition,
\* brand_persona, website_content, content_insights changes value once set.
C13_AdditiveState ==
    [][\A k \in DOMAIN state :
          /\ k \in DOMAIN state'
          /\ k \in InputKeys => state'[k] = state[k]]_vars

\* the state has grown by website_content and content_insights and the
\* branches are drafting
C13_Witness ==
    /\ pc = "generate_single_post"
    /\ InputKeys \subseteq DOMAIN state
    /\ \E k \in DOMAIN branches : branches[k].status = "returned"

HasScheme(u) ==
    \/ Len(u) >= 7 /\ SubSeq(u, 1, 7) = <<"h", "t", "t", "p", ":", "/", "/">>
    \/ Len(u) >= 8 /\ SubSeq(u, 1, 8) = <<"h", "t", "t", "p", "s", ":", "/", "/">>

\* C15: ensure_url puts "http://" before a string without scheme and leaves
\* a string with scheme as it is; a string that fails the shape check
\* ("not a url??", any string with a blank) is rejected, the fetch then
\* returns None and website_content is the literal text.
C15_UrlNormalised ==
    \A n \in DOMAIN fetched :
        LET u == fetched[n].url
            v == fetched[n].validated
        IN /\ ~HasScheme(u) => v.val = <<"h", "t", "t", "p", ":", "/", "/">> \o u
           /\ HasScheme(u) => v.val = u
           /\ u = ExampleCom =>
                 v = [exc |-> "none",
                      val |-> <<"h", "t", "t", "p", ":", "/", "/",
                                "e", "x", "a", "m", "p", "l", "e", ".", "c", "o", "m">>]
           /\ (u = NotAUrl \/ \E m \in DOMAIN u : u[m] = " ") => v.exc = "ValueError"
           /\ v.exc # "none" =>
                 /\ fetched[n].load = "none"
                 /\ fetched[n].result = [some |-> FALSE, val |-> <<>>]
                 /\ state["website_content"] = state["given_content"]

\* "not a url??" was rejected and the literal text is the content
C15_Witness ==
    /\ Len(fetched) = 1
    /\ fetched[1].url = NotAUrl
    /\ fetched[1].validated.exc = "ValueError"
    /\ state["website_content"] = <<"given">>

\* C16: after the join, the post at position k of linkedin_posts is the one
\* drafted from the insight at position k of content_insights.
C16_JoinKeepsOrder ==
    (AllDraftCallsOk /\ pc \notin {"generate_single_post", "generate_single_post.failed"}) =>
        \A k \in DOMAIN state["content_insights"] :
            /\ k <= Len(Posts(state))
            /\ Posts(state)[k].prompt.insight = state["content_insights"][k]

RECURSIVE SumCalls(_)
SumCalls(bs) == IF Len(bs) = 0 THEN 0 ELSE bs[1].calls + SumCalls(Tail(bs))

FannedOut == "generate_single_post" \in Range(entered)

\* C17 as stated: a run that has fanned out and ended has issued exactly one
\* drafting call per insight.
C17_ExactlyNCalls ==
    (FannedOut /\ outcome # "running") =>
        SumCalls(branches) = Len(state["content_insights"])

\* C17: one branch per entry of content_insights, branch k on insight k; a
\* branch issues at most one model call and returns at most one post; a run
\* issues at most N drafting calls, and exactly N when every branch returned.
C17_FanOutOneToOne ==
    FannedOut =>
        /\ Len(branches) = Len(state["content_insights"])
        /\ \A k \in DOMAIN branches :
              /\ branches[k].arg.insight = state["content_insights"][k]
              /\ branches[k].calls <= 1
              /\ Len(Posts(branches[k].ret)) <= 1
              /\ branches[k].status \in {"returned", "raised"} => branches[k].calls = 1
        /\ SumCalls(branches) <= Len(state["content_insights"])
        /\ (\A k \in DOMAIN branches : branches[k].status = "returned") =>
              SumCalls(branches) = Len(state["content_insights"])

\* the three branches have each made their call and returned
C17_Witness ==
    /\ FannedOut
    /\ Len(branches) = 3
    /\ \A k \in DOMAIN branches : branches[k].status = "returned"
    /\ SumCalls(branches) = 3

\* C18: a branch whose call has been issued is never cancelled; when
\* run_workflow raises no call is in flight any more: every issued call has
\* answered or failed.
C18_NoCancellation ==
    /\ \A k \in DOMAIN branches :
          branches[k].status = "cancelled" => branches[k].calls = 0
    /\ outcome = "raised" =>
          \A k \in DOMAIN branches :
              branches[k].calls = 1 => branches[k].call \in {"ok", "fail"}

\* the run raised after a sibling finished its call later than the failure
C18_Witness ==
    /\ outcome = "raised"
    /\ error.origin = "generate_single_post"
    /\ \E k \in DOMAIN branches : branches[k].late /\ branches[k].call = "ok"

\* C19: the run ends, returned or raised, and never makes more than 1 fetch,
\* 3 insight calls, one drafting call per insight and 1 selection call.
C19_Terminates ==
    /\ <>(outcome \in {"returned", "raised"})
    /\ [](/\ Len(fetched) <= 1
          /\ Len(insight_calls) <= 3
          /\ SumCalls(branches) <= 3
          /\ sel_call \in {"none", "ok", "fail"})

\* a run that ended after all the calls it can make before the join
C19_Witness ==
    /\ outcome = "raised"
    /\ Len(fetched) = 1
    /\ Len(insight_calls) = 3
    /\ SumCalls(branches) = 3

\* C20: select_best_post leaves linkedin_posts as it found it, in what it
\* returns and in the state after its writes.
C20_PostsUntouched ==
    pc # "select_best_post" =>
        /\ Posts(state) = Posts(sel_in)
        /\ "linkedin_posts" \in DOMAIN ret => ret["linkedin_posts"] = Posts(sel_in)

\* the model chose among several posts and the run returned
C20_Witness ==
    /\ pc = "END"
    /\ sel_call = "ok"
    /\ "best_selected" \in DOMAIN ret
    /\ Len(Posts(state)) >= 2
    /\ Posts(state) = Posts(sel_in)

PasswordCorrect(ss) == Get(ss, "password_correct", FALSE)

\* C21: run_workflow runs only while session password_correct is True;
\* password_correct turns True only in a submission of the configured
\* secret; a session whose password was accepted holds no "password" entry.
C21_PasswordGate ==
    /\ [](ui.pc = "run_workflow" => PasswordCorrect(session_state))
    /\ [](PasswordCorrect(session_state) => "password" \notin DOMAIN session_state)
    /\ [][(~PasswordCorrect(session_state) /\ PasswordCorrect(session_state')) =>
             (ui'.last = "submit" /\ ui'.submitted = Secret)]_vars

\* the secret was submitted and the script is inside run_workflow
C21_Witness ==
    /\ ui.pc = "run_workflow"
    /\ ui.submitted = Secret
    /\ PasswordCorrect(session_state)
    /\ "password" \notin DOMAIN session_state

\* C22: whenever the script is not inside run_workflow is_generating is
\* False and the Generate button was rendered enabled, whether the form was
\* rejected, the workflow returned or it raised; a raise leaves
\* generated_content as it was.
C22_GeneratingCleared ==
    /\ []((ui.pc # "run_workflow" /\ "is_generating" \in DOMAIN session_state) =>
             session_state["is_generating"] = FALSE)
    /\ []("generate" \in ui.widgets => ~ui.disabled)
    /\ [][(ui.pc = "run_workflow" /\ ui'.last = "raised") =>
             session_state'["generated_content"] = session_state["generated_content"]]_vars

\* the workflow raised with a result of an earlier run in store
C22_Witness ==
    /\ ui.pc = "idle"
    /\ ui.last = "raised"
    /\ session_state["is_generating"] = FALSE
    /\ TruthyDict(session_state["generated_content"])
    /\ "website_url" \in DOMAIN session_state["generated_content"]

====
